---- MODULE Spec2Model ----
(***************************************************************************)
(* A model of scripts/check_updates.py: the VersionChecker class and main. *)
(*                                                                         *)
(* Strings are sequences of one-character strings, so that lstrip, split,  *)
(* re.findall, int() and list.sort act on characters as they do in Python. *)
(* A Python value is a record [t, v]: t is its type tag and v its content. *)
(***************************************************************************)
EXTENDS Integers, Sequences, FiniteSets, TLC

VARIABLES
    \* ---- the run of main / run_checks
    config,          \* self.config["packages"], fixed for the run
    pc,              \* position of the run
    idx,             \* index of the package of the current iteration
    latest_version,  \* run_checks local
    current_version, \* run_checks local
    comparison,      \* run_checks local
    komac_cmd,       \* run_checks local
    has_updates,     \* run_checks local, the returned flag
    printed,         \* lines printed during the current iteration
    heads,           \* requests.head calls of the current iteration
    version_dirs,    \* version folders listed in the current iteration
    manifest_dir,    \* folder whose manifest was fetched in this iteration
    invoked,         \* subprocess.run calls, per package index
    exit_status,     \* status the process exits with
    \* ---- _compare_versions applied to drawn inputs
    v1, v2, v3, cmp,
    \* ---- _get_jsonpath_value applied to drawn inputs
    jdoc, jpath, jresult

runVars == <<config, pc, idx, latest_version, current_version, comparison,
             komac_cmd, has_updates, printed, heads, version_dirs,
             manifest_dir, invoked, exit_status>>
cmpVars == <<v1, v2, v3, cmp>>
jsonVars == <<jdoc, jpath, jresult>>
vars == <<runVars, cmpVars, jsonVars>>

-----------------------------------------------------------------------------
(* Bounds of the model *)

\* packages in the configuration
MaxPackages == 2
\* total length of the three strings given to _compare_versions
MaxTotalLen == 5
\* segments of a path given to _get_jsonpath_value
MaxSegments == 3
\* greatest bracketed index of a path segment
MaxIndex == 1

-----------------------------------------------------------------------------
(* Python values *)

Str(s) == [t |-> "str", v |-> s]
Num(s) == [t |-> "num", v |-> s]
NoneV == [t |-> "none", v |-> <<>>]
\* a key that the mapping does not hold: reading it raises KeyError
Missing == [t |-> "missing", v |-> <<>>]

\* bool(x) of a Python value
Truthy(x) ==
    CASE x.t = "str" -> x.v # <<>>
      [] x.t = "num" -> \E k \in 1..Len(x.v) : x.v[k] # "0"
      [] x.t = "map" -> DOMAIN x.v # {}
      [] x.t = "list" -> x.v # <<>>
      [] OTHER -> FALSE

Digit == {"0", "1", "2", "3", "4", "5", "6", "7", "8", "9"}

DigitVal(c) ==
    CASE c = "0" -> 0 [] c = "1" -> 1 [] c = "2" -> 2 [] c = "3" -> 3
      [] c = "4" -> 4 [] c = "5" -> 5 [] c = "6" -> 6 [] c = "7" -> 7
      [] c = "8" -> 8 [] c = "9" -> 9

\* code point of the characters the model uses, for str comparison
Ord(c) ==
    CASE c = "-" -> 45 [] c = "." -> 46 [] c = "b" -> 98 [] c = "v" -> 118
      [] c \in Digit -> 48 + DigitVal(c)

\* str.lstrip(chars)
RECURSIVE LStrip(_, _)
LStrip(s, chars) ==
    IF s # <<>> /\ Head(s) \in chars THEN LStrip(Tail(s), chars) ELSE s

\* str.rstrip(chars)
RECURSIVE RStrip(_, _)
RStrip(s, chars) ==
    IF s # <<>> /\ s[Len(s)] \in chars
    THEN RStrip(SubSeq(s, 1, Len(s) - 1), chars)
    ELSE s

\* str.split(sep) for a one-character separator: always at least one part
RECURSIVE SplitFrom(_, _, _, _)
SplitFrom(s, sep, cur, acc) ==
    IF s = <<>> THEN Append(acc, cur)
    ELSE IF Head(s) = sep THEN SplitFrom(Tail(s), sep, <<>>, Append(acc, cur))
    ELSE SplitFrom(Tail(s), sep, Append(cur, Head(s)), acc)

Split(s, sep) == SplitFrom(s, sep, <<>>, <<>>)

\* int(s) of a run of decimal digits
RECURSIVE IntFrom(_, _)
IntFrom(s, acc) ==
    IF s = <<>> THEN acc ELSE IntFrom(Tail(s), 10 * acc + DigitVal(Head(s)))

IntOfDigits(s) == IntFrom(s, 0)

-----------------------------------------------------------------------------
(* _compare_versions *)

\* re.findall(r"\d+", s): the maximal digit runs, left to right
RECURSIVE FindRuns(_, _, _)
FindRuns(s, cur, acc) ==
    IF s = <<>> THEN (IF cur = <<>> THEN acc ELSE Append(acc, cur))
    ELSE IF Head(s) \in Digit
         THEN FindRuns(Tail(s), Append(cur, Head(s)), acc)
         ELSE FindRuns(Tail(s), <<>>, IF cur = <<>> THEN acc ELSE Append(acc, cur))

\* [int(x) for x in re.findall(r"\d+", s)]
VersionParts(s) ==
    LET runs == FindRuns(s, <<>>, <<>>)
    IN [k \in 1..Len(runs) |-> IntOfDigits(runs[k])]

\* parts.extend([0] * (max_len - len(parts)))
Extend(parts, max_len) ==
    parts \o [k \in 1..(max_len - Len(parts)) |-> 0]

\* the body of the loop over zip(v1_parts, v2_parts), mutated: >= for >
CompareStepGe(a, b) == IF a >= b THEN 1 ELSE IF a < b THEN -1 ELSE 0

\* the body of the loop over zip(v1_parts, v2_parts): 0 stands for no return
CompareStep(a, b) == IF a > b THEN 1 ELSE IF a < b THEN -1 ELSE 0

\* for a, b in zip(v1_parts, v2_parts): ... return 0
RECURSIVE ZipCompare(_, _)
ZipCompare(p1, p2) ==
    IF p1 = <<>> \/ p2 = <<>> THEN 0
    ELSE LET r == CompareStep(Head(p1), Head(p2))
         IN IF r # 0 THEN r ELSE ZipCompare(Tail(p1), Tail(p2))

\* _compare_versions without the padding of the shorter list
CompareVersionsNoPad(s1, s2) ==
    ZipCompare(VersionParts(LStrip(s1, {"v"})), VersionParts(LStrip(s2, {"v"})))

\* _compare_versions on two str values
CompareVersions(s1, s2) ==
    LET a == LStrip(s1, {"v"})
        b == LStrip(s2, {"v"})
        v1_parts == VersionParts(a)
        v2_parts == VersionParts(b)
        max_len == IF Len(v1_parts) >= Len(v2_parts)
                   THEN Len(v1_parts) ELSE Len(v2_parts)
    IN ZipCompare(Extend(v1_parts, max_len), Extend(v2_parts, max_len))

-----------------------------------------------------------------------------
(* _get_jsonpath_value *)

\* a JSON document after response.json(): dict, list, str and int values
Map(f) == [t |-> "map", v |-> f]
List(s) == [t |-> "list", v |-> s]

\* the exception a subscript or int() raises
Raised == [t |-> "raise", v |-> <<>>]

Range(s) == {s[k] : k \in 1..Len(s)}

\* int(s): an optional sign, then decimal digits; anything else is ValueError
ParseInt(s) ==
    LET body == IF s # <<>> /\ Head(s) \in {"-", "+"} THEN Tail(s) ELSE s
    IN IF body = <<>> \/ ~(Range(body) \subseteq Digit)
       THEN [ok |-> FALSE, n |-> 0]
       ELSE [ok |-> TRUE,
             n |-> IF Head(s) = "-" THEN 0 - IntOfDigits(body)
                   ELSE IntOfDigits(body)]

\* value[key] for a str key: only a dict holding the key answers
Lookup(value, key) ==
    IF value.t = "map" /\ key \in DOMAIN value.v THEN value.v[key] ELSE Raised

\* value[index] for an int index: a list or a str, negative counts from the end
Index(value, n) ==
    IF value.t \in {"list", "str"} /\ n < Len(value.v) /\ n >= 0 - Len(value.v)
    THEN LET k == IF n >= 0 THEN n + 1 ELSE Len(value.v) + n + 1
         IN IF value.t = "list" THEN value.v[k] ELSE Str(<<value.v[k]>>)
    ELSE Raised

\* the loop body of _get_jsonpath_value: one part of the path applied to value
JsonpathStep(value, part) ==
    IF value.t = "raise" THEN Raised
    ELSE IF "[" \in Range(part) /\ part # <<>> /\ part[Len(part)] = "]"
    THEN LET pieces == Split(part, "[")
             key == pieces[1]
             index == ParseInt(RStrip(pieces[2], {"]"}))
         IN IF ~index.ok THEN Raised
            ELSE LET inner == Lookup(value, key)
                 IN IF inner.t = "raise" THEN Raised ELSE Index(inner, index.n)
    ELSE Lookup(value, part)

RECURSIVE JsonpathFold(_, _)
JsonpathFold(value, parts) ==
    IF parts = <<>> THEN value
    ELSE JsonpathFold(JsonpathStep(value, Head(parts)), Tail(parts))

\* _get_jsonpath_value(data, path); Raised when it raises
GetJsonpathValue(data, path) ==
    JsonpathFold(data, Split(LStrip(path, {"$"}), "."))
-----------------------------------------------------------------------------
(* Inputs drawn for the two pure functions *)

\* characters of the version strings compared
Alphabet == {"0", "1", ".", "v"}

NoCmp == [done |-> FALSE, ab |-> 0, ba |-> 0, bc |-> 0, cb |-> 0, ac |-> 0, ca |-> 0]

Ver(s) == Str(s)
V210 == <<"2", ".", "1", ".", "0">>
V200 == <<"2", ".", "0", ".", "0">>
V190 == <<"1", ".", "9", ".", "0">>
V1100 == <<"1", ".", "1", "0", ".", "0">>

\* {"data":{"releases":[{"tag":"2.1.0"}]}}
DocReleases ==
    Map(<<"data">> :> Map(<<"releases">> :> List(<<Map(<<"tag">> :> Str(V210))>>)))
\* {"data":{"releases":[{"tag":"2.1.0"},{"tag":"2.0.0"}],"tag":"2.1.0"}}
DocTwoReleases ==
    Map(<<"data">> :> Map((<<"releases">> :>
                              List(<<Map(<<"tag">> :> Str(V210)),
                                     Map(<<"tag">> :> Str(V200))>>))
                          @@ (<<"tag">> :> Str(V210))))
\* {"tag": 2, "data": {"tag": "2.0.0"}}
DocNumber ==
    Map((<<"tag">> :> Num(<<"2">>)) @@ (<<"data">> :> Map(<<"tag">> :> Str(V200))))
Docs == {DocReleases, DocTwoReleases, DocNumber}

Keys == {"data", "releases", "tag"}

DigitChar(n) ==
    CASE n = 0 -> "0" [] n = 1 -> "1" [] n = 2 -> "2" [] n = 3 -> "3" [] n = 4 -> "4"
      [] n = 5 -> "5" [] n = 6 -> "6" [] n = 7 -> "7" [] n = 8 -> "8" [] n = 9 -> "9"

\* a path segment: key or key[i]
Segments ==
    {<<k>> : k \in Keys}
    \cup {<<k, "[", DigitChar(n), "]">> : k \in Keys, n \in 0..MaxIndex}
    \cup {<<k, "[", "-", "1", "]">> : k \in Keys}

Prefixes == {<<>>, <<"$">>, <<"$", ".">>, <<".">>}

RECURSIVE JoinDots(_)
JoinDots(segs) ==
    IF Len(segs) = 1 THEN segs[1]
    ELSE segs[1] \o <<".">> \o JoinDots(Tail(segs))

\* $.data.releases[0].tag
SpecPath == <<"$", ".", "data", ".", "releases", "[", "0", "]", ".", "tag">>

-----------------------------------------------------------------------------
(* _compare_versions and _get_jsonpath_value as state machines over inputs *)

RunIdle ==
    /\ config = <<>> /\ pc = "idle" /\ idx = 0
    /\ latest_version = NoneV /\ current_version = NoneV /\ comparison = 0
    /\ komac_cmd = <<>> /\ has_updates = FALSE /\ printed = <<>> /\ heads = <<>>
    /\ version_dirs = <<>> /\ manifest_dir = NoneV /\ invoked = <<>>
    /\ exit_status = -1

CmpIdle == v1 = <<>> /\ v2 = <<>> /\ v3 = <<>> /\ cmp = NoCmp

JsonIdle == jdoc = NoneV /\ jpath = <<>> /\ jresult = NoneV

CmpInit ==
    /\ \E n1 \in 0..MaxTotalLen : \E a \in [1..n1 -> Alphabet] :
       \E n2 \in 0..(MaxTotalLen - n1) : \E b \in [1..n2 -> Alphabet] :
       \E n3 \in 0..(MaxTotalLen - n1 - n2) : \E c \in [1..n3 -> Alphabet] :
          v1 = a /\ v2 = b /\ v3 = c
    /\ cmp = NoCmp
    /\ RunIdle /\ JsonIdle

\* the six calls of _compare_versions on the drawn strings
CompareDrawn ==
    /\ ~cmp.done
    /\ cmp' = [done |-> TRUE,
               ab |-> CompareVersions(v1, v2), ba |-> CompareVersions(v2, v1),
               bc |-> CompareVersions(v2, v3), cb |-> CompareVersions(v3, v2),
               ac |-> CompareVersions(v1, v3), ca |-> CompareVersions(v3, v1)]
    /\ UNCHANGED <<v1, v2, v3, runVars, jsonVars>>

CmpNext == CompareDrawn

SpecCompare == CmpInit /\ [][CmpNext]_vars

JsonInit ==
    /\ \E d \in Docs : jdoc = d
    /\ \E pre \in Prefixes : \E n \in 1..MaxSegments : \E segs \in [1..n -> Segments] :
          jpath = pre \o JoinDots(segs)
    /\ jresult = NoneV
    /\ RunIdle /\ CmpIdle

\* one call of _get_jsonpath_value on the drawn document and path
EvaluatePath ==
    /\ jresult = NoneV
    /\ jresult' = GetJsonpathValue(jdoc, jpath)
    /\ UNCHANGED <<jdoc, jpath, runVars, cmpVars>>

JsonNext == EvaluatePath

SpecJsonpath == JsonInit /\ [][JsonNext]_vars
-----------------------------------------------------------------------------
(* Configured packages *)

UrlLiteral == <<"https://host/app.zip">>
UrlTemplate == <<"https://host/v", "{version}", "/app.zip">>

\* installer.get("url") and installer.get("url-template"): None when absent
InstLiteral == [url |-> Str(UrlLiteral), template |-> NoneV]
InstTemplate == [url |-> NoneV, template |-> Str(UrlTemplate)]
InstNoUrl == [url |-> NoneV, template |-> NoneV]

WingetId == Str(<<"aome510", ".", "spotify-player">>)

\* version-parser: regex stands for pattern v([\d.]+), tag_filter for ^v\d
RegexParser == [type |-> "regex", tag_filter |-> TRUE, path |-> <<>>]
PlainParser == [type |-> "none", tag_filter |-> FALSE, path |-> <<>>]
PathParser(path) == [type |-> "jsonpath", tag_filter |-> FALSE, path |-> path]

Pkg(name, source, parser, installers, skip) ==
    [id |-> Str(<<name>>), winget_id |-> WingetId, source |-> source,
     parser |-> parser, installers |-> installers, skip_checks |-> skip]

Catalog ==
    { Pkg("one", "github", RegexParser, <<InstTemplate>>, {}),
      Pkg("two", "github", PlainParser, <<InstLiteral, InstTemplate>>, {}),
      Pkg("nourl", "webpage", RegexParser, <<InstTemplate, InstNoUrl>>, {}),
      Pkg("skip", "webpage", RegexParser, <<InstTemplate>>, {"url-check"}),
      Pkg("skipnourl", "github", RegexParser, <<InstNoUrl>>, {"url-check"}),
      Pkg("api", "api", PathParser(<<"data", ".", "tag">>), <<>>, {}),
      Pkg("apinum", "api", PathParser(<<"tag">>), <<InstLiteral>>, {}),
      Pkg("other", "svn", PlainParser, <<InstLiteral>>, {}),
      [Pkg("noid", "github", RegexParser, <<InstLiteral>>, {})
          EXCEPT !.id = Missing],
      [Pkg("nowid", "github", RegexParser, <<InstLiteral>>, {})
          EXCEPT !.winget_id = Missing],
      [Pkg("solo", "github", RegexParser, <<InstLiteral>>, {})
          EXCEPT !.winget_id = Str(<<"solo">>)],
      Pkg("nosource", "missing", RegexParser, <<InstLiteral>>, {}) }

-----------------------------------------------------------------------------
(* What the network answers *)

\* tag_name of the latest GitHub release
Tags == { <<"v", "2", ".", "0", ".", "0">>, <<"v", "1", ".", "9", ".", "0">>,
          <<"n", "i", "g", "h", "t", "l", "y">> }

\* response.text of a web page
Pages == { <<"<p>", "v", "2", ".", "0", ".", "0", "</p>">>, <<"<p>", "</p>">> }

\* response.json() of an api source
ApiDocs == {DocNumber, DocTwoReleases}

\* names of the version folders a package directory can hold
FolderNames == {V190, V1100}

\* the status below which a HEAD response is accepted
BadStatus == 400

\* requests.head: it raises, or it returns a status code
HeadResponses ==
    {[raised |-> TRUE, status |-> 0]}
    \cup {[raised |-> FALSE, status |-> n] : n \in {BadStatus - 1, BadStatus}}

\* how subprocess.run ends
RunOutcomes == {"ok", "failed", "timeout", "oserror"}

-----------------------------------------------------------------------------
(* _parse_version and the regular expressions *)

NumChars == Digit \cup {"."}

\* the longest prefix of s made of digits and dots: what ([\d.]+) captures
RECURSIVE NumPrefix(_)
NumPrefix(s) ==
    IF s # <<>> /\ Head(s) \in NumChars THEN <<Head(s)>> \o NumPrefix(Tail(s))
    ELSE <<>>

\* re.search(r"v([\d.]+)", s).group(1), None when there is no match
RECURSIVE SearchVNum(_)
SearchVNum(s) ==
    IF Len(s) < 2 THEN NoneV
    ELSE IF s[1] = "v" /\ s[2] \in NumChars THEN Str(NumPrefix(Tail(s)))
    ELSE SearchVNum(Tail(s))

\* re.match(r"^v\d", s)
MatchVDigit(s) == Len(s) >= 2 /\ s[1] = "v" /\ s[2] \in Digit

\* _parse_version(raw_version, parser)
ParseVersion(raw, parser) ==
    IF parser.type = "regex"
    THEN IF parser.tag_filter /\ ~MatchVDigit(raw) THEN NoneV ELSE SearchVNum(raw)
    ELSE Str(raw)

\* re.search(r"PackageVersion:\s*([\d.]+)", content) on a manifest whose
\* PackageVersion field holds text
ManifestVersion(text) ==
    IF NumPrefix(text) = <<>> THEN NoneV ELSE Str(NumPrefix(text))

-----------------------------------------------------------------------------
(* list.sort(reverse=True) on str *)

\* a < b for Python str
RECURSIVE StrLess(_, _)
StrLess(a, b) ==
    IF b = <<>> THEN FALSE
    ELSE IF a = <<>> THEN TRUE
    ELSE IF Head(a) # Head(b) THEN Ord(Head(a)) < Ord(Head(b))
    ELSE StrLess(Tail(a), Tail(b))

\* the names of S as a list sorted in descending str order
RECURSIVE SortDesc(_)
SortDesc(S) ==
    IF S = {} THEN <<>>
    ELSE LET m == CHOOSE m \in S : \A x \in S : ~StrLess(m, x)
         IN <<m>> \o SortDesc(S \ {m})

-----------------------------------------------------------------------------
(* The helpers of run_checks *)

\* _get_api_version: the exception of _get_jsonpath_value becomes None
ApiVersion(doc, parser) ==
    LET version == GetJsonpathValue(doc, parser.path)
    IN IF version.t = "raise" THEN NoneV ELSE version

\* what _get_latest_version can return for a package whose version-source is
\* present: None after a failed request, else the parsed answer
LatestResults(package) ==
    CASE package.source = "github" ->
            {NoneV} \cup {ParseVersion(tag, package.parser) : tag \in Tags}
      [] package.source = "api" ->
            {NoneV} \cup {ApiVersion(doc, package.parser) : doc \in ApiDocs}
      [] package.source = "webpage" ->
            {NoneV} \cup {SearchVNum(page) : page \in Pages}
      [] OTHER -> {NoneV}

\* the directory listings the contents API can answer with
Listings ==
    { {[name |-> d, type |-> "dir"] : d \in D} \cup F :
        D \in SUBSET FolderNames,
        F \in {{}, {[name |-> <<"README", ".", "md">>, type |-> "file"]}} }

Outcome(ret, dirs, mdir, msgs) ==
    [ret |-> ret, dirs |-> dirs, mdir |-> mdir, msgs |-> msgs]

\* _get_current_winget_version from the listing on: filter, sort, take the
\* first folder, fetch its manifest, search PackageVersion
ListingOutcomes(listing) ==
    LET dirs == SortDesc({e.name : e \in {x \in listing : x.type = "dir"}})
    IN IF dirs = <<>> THEN {Outcome(NoneV, dirs, NoneV, <<"no_version_dirs">>)}
       ELSE LET latest_version_dir == dirs[1]
            IN { Outcome(NoneV, dirs, Str(latest_version_dir), <<"manifest_not_found">>),
                 Outcome(NoneV, dirs, Str(latest_version_dir), <<"error_current">>),
                 Outcome(ManifestVersion(latest_version_dir), dirs,
                         Str(latest_version_dir), <<>>) }

\* what _get_current_winget_version can do for a package that has a winget-id
CurrentOutcomes(package) ==
    IF package.winget_id.t # "str"
    THEN {Outcome(NoneV, <<>>, NoneV, <<"error_current">>)}
    ELSE LET parts == Split(package.winget_id.v, ".")
         IN IF Len(parts) < 2
            THEN {Outcome(NoneV, <<>>, NoneV, <<"invalid_winget_id">>)}
            ELSE IF parts[1] = <<>>
            THEN {Outcome(NoneV, <<>>, NoneV, <<"error_current">>)}
            ELSE { Outcome(NoneV, <<>>, NoneV, <<"not_found_in_winget_pkgs">>),
                   Outcome(NoneV, <<>>, NoneV, <<"error_current">>) }
                 \cup UNION {ListingOutcomes(l) : l \in Listings}

\* str.replace("{version}", version) on a URL given as a list of pieces
RECURSIVE Substitute(_, _)
Substitute(url, version) ==
    IF url = <<>> THEN <<>>
    ELSE (IF Head(url) = "{version}" THEN version ELSE <<Head(url)>>)
         \o Substitute(Tail(url), version)

\* final_url of _check_installer_urls, mutated: the template is not filled in
FinalUrlNoSubstitute(installer, version) ==
    IF Truthy(installer.url) THEN installer.url ELSE installer.template

\* final_url of _check_installer_urls
FinalUrl(installer, version) ==
    LET final_url == IF Truthy(installer.url) THEN installer.url
                     ELSE installer.template
    IN IF Truthy(final_url) /\ "{version}" \in Range(final_url.v)
       THEN Str(Substitute(final_url.v, version))
       ELSE final_url

\* one requests.head call: a URL that is no str raises before any request
HeadOf(installer, version, response) ==
    LET final_url == FinalUrl(installer, version)
        raised == response.raised \/ final_url.t # "str"
    IN [url |-> final_url, raised |-> raised,
        status |-> IF raised THEN 0 ELSE response.status]

HeadFails(h) == h.raised \/ h.status >= BadStatus

\* the loop of _check_installer_urls: it returns at the first failure
RECURSIVE HeadLoop(_, _, _)
HeadLoop(installers, version, responses) ==
    IF installers = <<>> THEN <<>>
    ELSE LET h == HeadOf(Head(installers), version, Head(responses))
         IN IF HeadFails(h) THEN <<h>>
            ELSE <<h>> \o HeadLoop(Tail(installers), version, Tail(responses))

\* installer_url of _generate_komac_command
InstallerUrl(installer, new_version) ==
    LET installer_url == IF Truthy(installer.url) THEN installer.url
                         ELSE installer.template
    IN IF Truthy(installer_url) /\ "{version}" \in Range(installer_url.v)
       THEN Str(Substitute(installer_url.v, new_version))
       ELSE installer_url

RECURSIVE UrlArgs(_, _)
UrlArgs(installers, new_version) ==
    IF installers = <<>> THEN <<>>
    ELSE <<Str(<<"--urls">>), InstallerUrl(Head(installers), new_version)>>
         \o UrlArgs(Tail(installers), new_version)

\* _generate_komac_command(package, new_version)
GenerateKomacCommand(package, new_version) ==
    <<Str(<<"komac">>), Str(<<"update">>), Str(<<"--id">>), package.winget_id,
      Str(<<"--version">>), new_version>>
    \o UrlArgs(package.installers, new_version.v)
    \o <<Str(<<"--submit">>)>>

\* has_updates after _execute_komac_update, mutated: only a zero exit counts
FlagOnSuccess(outcome) == outcome = "ok"

\* has_updates = True, whatever _execute_komac_update met
FlagAfterExecute(outcome) == TRUE

\* sys.exit(0) in both branches of main
ExitStatus(flag) == IF flag THEN 0 ELSE 0

-----------------------------------------------------------------------------
(* main and run_checks *)

package == config[idx]

Say(msgs) == printed' = printed \o msgs

\* an exception nobody catches: the interpreter prints it and exits with 1
Crash == pc' = "crashed" /\ exit_status' = 1

Init ==
    /\ \E n \in 0..MaxPackages : \E c \in [1..n -> Catalog] :
          config = c /\ invoked = [k \in 1..n |-> <<>>]
    /\ pc = "start" /\ idx = 0
    /\ latest_version = NoneV /\ current_version = NoneV /\ comparison = 0
    /\ komac_cmd = <<>> /\ has_updates = FALSE /\ printed = <<>> /\ heads = <<>>
    /\ version_dirs = <<>> /\ manifest_dir = NoneV
    /\ exit_status = -1
    /\ CmpIdle /\ JsonIdle

\* VersionChecker(args.config): _load_config raises when the file cannot be
\* read or parsed; then run_checks begins with has_updates = False
Construct ==
    /\ pc = "start"
    /\ \E loaded \in BOOLEAN :
          IF loaded THEN pc' = "loop" /\ UNCHANGED exit_status ELSE Crash
    /\ has_updates' = FALSE
    /\ UNCHANGED <<config, idx, latest_version, current_version, comparison,
                   komac_cmd, printed, heads, version_dirs, manifest_dir,
                   invoked, cmpVars, jsonVars>>

\* for package in packages: pkg_id = package["id"].  The locals of the loop
\* body are bound anew before any use, so the iteration starts without them.
NextPackage ==
    /\ pc = "loop" /\ idx < Len(config)
    /\ idx' = idx + 1
    /\ latest_version' = NoneV /\ current_version' = NoneV /\ comparison' = 0
    /\ komac_cmd' = <<>> /\ heads' = <<>>
    /\ version_dirs' = <<>> /\ manifest_dir' = NoneV
    /\ IF config[idx + 1].id.t = "missing"
       THEN Crash /\ printed' = <<>>
       ELSE pc' = "latest" /\ printed' = <<"checking">> /\ UNCHANGED exit_status
    /\ UNCHANGED <<config, has_updates, invoked, cmpVars, jsonVars>>

\* latest_version = self._get_latest_version(package) and the test after it
GetLatestVersion ==
    /\ pc = "latest"
    /\ IF package.source = "missing"
       THEN Crash /\ UNCHANGED <<latest_version, printed>>
       ELSE \E r \in LatestResults(package) :
              /\ latest_version' = r
              /\ IF ~Truthy(r)
                 THEN Say(<<"failed_latest">>) /\ pc' = "loop"
                 ELSE Say(<<"latest">>) /\ pc' = "current"
              /\ UNCHANGED exit_status
    /\ UNCHANGED <<config, idx, current_version, comparison, komac_cmd,
                   has_updates, heads, version_dirs, manifest_dir, invoked,
                   cmpVars, jsonVars>>

\* current_version = self._get_current_winget_version(package) and the test
\* after it
GetCurrentWingetVersion ==
    /\ pc = "current"
    /\ IF package.winget_id.t = "missing"
       THEN Crash /\ UNCHANGED <<current_version, printed, version_dirs, manifest_dir>>
       ELSE \E o \in CurrentOutcomes(package) :
              /\ current_version' = o.ret
              /\ version_dirs' = o.dirs
              /\ manifest_dir' = o.mdir
              /\ IF ~Truthy(o.ret)
                 THEN Say(o.msgs \o <<"failed_current">>) /\ pc' = "loop"
                 ELSE Say(o.msgs \o <<"current">>) /\ pc' = "compare"
              /\ UNCHANGED exit_status
    /\ UNCHANGED <<config, idx, latest_version, comparison, komac_cmd,
                   has_updates, heads, invoked, cmpVars, jsonVars>>

\* comparison = self._compare_versions(latest_version, current_version) and
\* the two tests after it; a value without lstrip raises AttributeError
Compare ==
    /\ pc = "compare"
    /\ IF latest_version.t # "str" \/ current_version.t # "str"
       THEN Crash /\ UNCHANGED <<comparison, printed>>
       ELSE /\ comparison' = CompareVersions(latest_version.v, current_version.v)
            /\ IF ~Truthy(current_version)
               THEN Say(<<"package_not_found", "komac_new">>) /\ pc' = "loop"
               ELSE IF comparison' > 0
               THEN Say(<<"update_available">>) /\ pc' = "urlcheck"
               ELSE Say(<<"no_update">>) /\ pc' = "loop"
            /\ UNCHANGED exit_status
    /\ UNCHANGED <<config, idx, latest_version, current_version, komac_cmd,
                   has_updates, heads, version_dirs, manifest_dir, invoked,
                   cmpVars, jsonVars>>

\* if not self._check_installer_urls(package, latest_version): continue
CheckInstallerUrls ==
    /\ pc = "urlcheck"
    /\ IF "url-check" \in package.skip_checks
       THEN pc' = "generate" /\ UNCHANGED <<heads, printed>>
       ELSE \E responses \in [1..Len(package.installers) -> HeadResponses] :
              LET hs == HeadLoop(package.installers, latest_version.v, responses)
              IN /\ heads' = hs
                 /\ IF \E k \in 1..Len(hs) : HeadFails(hs[k])
                    THEN Say(<<"url_check_failed", "skipping_update">>) /\ pc' = "loop"
                    ELSE pc' = "generate" /\ UNCHANGED printed
    /\ UNCHANGED <<config, idx, latest_version, current_version, comparison,
                   komac_cmd, has_updates, version_dirs, manifest_dir, invoked,
                   exit_status, cmpVars, jsonVars>>

\* komac_cmd = self._generate_komac_command(package, latest_version)
GenerateCommand ==
    /\ pc = "generate"
    /\ komac_cmd' = GenerateKomacCommand(package, latest_version)
    /\ pc' = "execute"
    /\ UNCHANGED <<config, idx, latest_version, current_version, comparison,
                   has_updates, printed, heads, version_dirs, manifest_dir,
                   invoked, exit_status, cmpVars, jsonVars>>

\* self._execute_komac_update(komac_cmd); has_updates = True.  ' '.join raises
\* TypeError outside the try when an item of the command is no str.
ExecuteKomacUpdate ==
    /\ pc = "execute"
    /\ IF \E k \in 1..Len(komac_cmd) : komac_cmd[k].t # "str"
       THEN Crash /\ UNCHANGED <<invoked, printed, has_updates>>
       ELSE \E o \in RunOutcomes :
              /\ invoked' = [invoked EXCEPT
                                ![idx] = Append(@, [cmd |-> komac_cmd, outcome |-> o])]
              /\ Say(<<"executing", o>>)
              /\ has_updates' = FlagAfterExecute(o)
              /\ pc' = "loop"
              /\ UNCHANGED exit_status
    /\ UNCHANGED <<config, idx, latest_version, current_version, comparison,
                   komac_cmd, heads, version_dirs, manifest_dir, cmpVars, jsonVars>>

\* return has_updates, then main prints the summary and calls sys.exit
MainExit ==
    /\ pc = "loop" /\ idx = Len(config)
    /\ pc' = "exited"
    /\ exit_status' = ExitStatus(has_updates)
    /\ UNCHANGED <<config, idx, latest_version, current_version, comparison,
                   komac_cmd, has_updates, printed, heads, version_dirs,
                   manifest_dir, invoked, cmpVars, jsonVars>>

Next ==
    \/ Construct
    \/ NextPackage
    \/ GetLatestVersion
    \/ GetCurrentWingetVersion
    \/ Compare
    \/ CheckInstallerUrls
    \/ GenerateCommand
    \/ ExecuteKomacUpdate
    \/ MainExit

Spec == Init /\ [][Next]_vars

-----------------------------------------------------------------------------
(* Reference comparison: digit runs as integers, zero padded on the right *)

\* the maximal intervals of digits of s
RefDigitRuns(s) ==
    {r \in (1..Len(s)) \X (1..Len(s)) :
        /\ r[1] <= r[2]
        /\ \A k \in r[1]..r[2] : s[k] \in Digit
        /\ (r[1] = 1 \/ s[r[1] - 1] \notin Digit)
        /\ (r[2] = Len(s) \/ s[r[2] + 1] \notin Digit)}

RECURSIVE RefVal(_, _, _)
RefVal(s, i, j) == IF i > j THEN 0 ELSE DigitVal(s[j]) + 10 * RefVal(s, i, j - 1)

RefParts(s) ==
    LET R == RefDigitRuns(s)
    IN [n \in 1..Cardinality(R) |->
          LET r == CHOOSE r \in R : Cardinality({q \in R : q[1] < r[1]}) = n - 1
          IN RefVal(s, r[1], r[2])]

RefCompare(a, b) ==
    LET A == RefParts(a)
        B == RefParts(b)
        n == IF Len(A) >= Len(B) THEN Len(A) ELSE Len(B)
        El(S, k) == IF k <= Len(S) THEN S[k] ELSE 0
        D == {k \in 1..n : El(A, k) # El(B, k)}
    IN IF D = {} THEN 0
       ELSE LET k == CHOOSE k \in D : \A m \in D : k <= m
            IN IF El(A, k) > El(B, k) THEN 1 ELSE -1

\* s with every "." replaced by "-"
Dashed(s) == [k \in 1..Len(s) |-> IF s[k] = "." THEN "-" ELSE s[k]]

-----------------------------------------------------------------------------
(* Claims about _compare_versions, under SpecCompare *)

\* C3: _compare_versions is antisymmetric (compare(a,b) = -compare(b,a)) and
\* transitive (compare(a,b) >= 0 and compare(b,c) >= 0 give compare(a,c) >= 0,
\* which is 0 only if both are 0), also for strings with different numbers of
\* digit runs and strings with no digits.
C3_AntisymmetricTransitive ==
    cmp.done =>
        /\ cmp.ab = 0 - cmp.ba
        /\ cmp.bc = 0 - cmp.cb
        /\ cmp.ac = 0 - cmp.ca
        /\ (cmp.ab >= 0 /\ cmp.bc >= 0) =>
              /\ cmp.ac >= 0
              /\ cmp.ac = 0 => (cmp.ab = 0 /\ cmp.bc = 0)

\* a strictly descending chain whose strings have 2, 1 and 0 digit runs
C3_Witness ==
    /\ cmp.done
    /\ cmp.ab = 1 /\ cmp.bc = 1 /\ cmp.ac = 1
    /\ Len(VersionParts(v1)) > Len(VersionParts(v2))
    /\ VersionParts(v2) # <<>>
    /\ v3 # <<>> /\ VersionParts(v3) = <<>>

\* C8: _compare_versions equals the reference comparison (digit runs in order
\* as integers, the shorter sequence padded on the right with zeros, the sign of
\* the first unequal pair, else equal); compare("1.2","1.2.0") is equal,
\* compare("v2.0","1.9.9") is greater, and a suffix letter or another
\* non-numeric separator does not change the result.
C8_EqualsReference ==
    /\ CompareVersions(<<"1", ".", "2">>, <<"1", ".", "2", ".", "0">>) = 0
    /\ CompareVersions(<<"v", "2", ".", "0">>, <<"1", ".", "9", ".", "9">>) = 1
    /\ cmp.done =>
        /\ cmp.ab = RefCompare(v1, v2)
        /\ cmp.bc = RefCompare(v2, v3)
        /\ cmp.ca = RefCompare(v3, v1)
        /\ CompareVersions(v1 \o <<"b">>, v2) = cmp.ab
        /\ CompareVersions(Dashed(v1), v2) = cmp.ab

\* the padding decides: "v1" against "1.0", a v prefix and an extra zero run
C8_Witness ==
    /\ cmp.done
    /\ v1 # <<>> /\ Head(v1) = "v"
    /\ VersionParts(v1) # <<>>
    /\ Len(VersionParts(v1)) < Len(VersionParts(v2))
    /\ cmp.ab = 0 /\ cmp.ba = 0

-----------------------------------------------------------------------------
(* Claims about _get_jsonpath_value, under SpecJsonpath *)

\* the value the successive lookups data[k1][k2][i][k3] reach, Raised if none
RefNavigate(data, k1, k2, i, k3) ==
    LET a == Lookup(data, <<k1>>)
        b == IF a.t = "raise" THEN Raised ELSE Lookup(a, <<k2>>)
        c == IF b.t # "list" \/ i >= Len(b.v) THEN Raised ELSE b.v[i + 1]
    IN IF c.t = "raise" THEN Raised ELSE Lookup(c, <<k3>>)

\* C4: the path $.data.releases[0].tag applied to
\* {"data":{"releases":[{"tag":"2.1.0"}]}} yields "2.1.0"; a path $.k1.k2[i].k3
\* returns the value reached by the successive key lookups and the index, and
\* fails when the index is out of range.
C4_DollarDotPath ==
    /\ (jresult.t # "none" /\ jdoc = DocReleases /\ jpath = SpecPath)
          => jresult = Str(V210)
    /\ \A k1, k2, k3 \in Keys : \A i \in 0..MaxIndex :
          (/\ jresult.t # "none"
           /\ jpath = <<"$", ".", k1, ".", k2, "[", DigitChar(i), "]", ".", k3>>)
             => jresult = RefNavigate(jdoc, k1, k2, i, k3)
-----------------------------------------------------------------------------
(* Claims about run_checks and main, under Spec *)

\* the iteration of package idx is over: the loop is back at its head, or the
\* run has ended
IterationOver == idx >= 1 /\ pc \in {"loop", "crashed", "exited"}

\* the answer of _check_installer_urls as the claims describe it
UrlCheckPasses ==
    \/ "url-check" \in package.skip_checks
    \/ /\ Len(heads) = Len(package.installers)
       /\ \A k \in 1..Len(heads) : ~heads[k].raised /\ heads[k].status < BadStatus

UpdateDue ==
    /\ Truthy(latest_version) /\ Truthy(current_version)
    /\ latest_version.t = "str"
    /\ RefCompare(latest_version.v, current_version.v) > 0
    /\ UrlCheckPasses

\* C1: for every package, the external tool is invoked exactly once when the
\* latest and the current version both resolve, latest compares greater and
\* the installer URL check passes or is suppressed; zero times otherwise.
C1_InvokedOnceIffUpdateDue ==
    IterationOver => Len(invoked[idx]) = (IF UpdateDue THEN 1 ELSE 0)

\* C2: once the configuration has loaded, no error of a per-package step is
\* fatal: the run never ends in an uncaught exception after the load.
C2_NoPackageErrorIsFatal == pc = "crashed" => idx = 0

\* C5: the folder whose manifest is read is the greatest listed version under
\* the numeric comparison, and a 404 listing gives None.
C5_ReadsGreatestVersion ==
    /\ manifest_dir.t = "str" =>
          \A k \in 1..Len(version_dirs) :
              CompareVersions(manifest_dir.v, version_dirs[k]) >= 0
    /\ "not_found_in_winget_pkgs" \in Range(printed) => current_version = NoneV

\* C6: when the latest version resolves and the current one is unavailable,
\* run_checks logs that the package does not exist upstream, then the
\* suggested komac new command, and skips without invoking the tool.
C6_SuggestsKomacNew ==
    (pc = "loop" /\ idx >= 1 /\ Truthy(latest_version) /\ ~Truthy(current_version))
    => /\ invoked[idx] = <<>>
       /\ \E i, j \in 1..Len(printed) :
             /\ i < j
             /\ printed[i] \in {"package_not_found", "not_found_in_winget_pkgs"}
             /\ printed[j] = "komac_new"

\* C9: the command is komac update --id <winget-id> --version <latest>, one
\* (--urls, url) pair per installer in order, then --submit, and every url is
\* a str without the {version} placeholder, url-check suppressed or not.
C9_CommandShape ==
    pc = "execute" =>
        LET n == Len(package.installers)
        IN /\ Len(komac_cmd) = 2 * n + 7
           /\ SubSeq(komac_cmd, 1, 6) =
                 <<Str(<<"komac">>), Str(<<"update">>), Str(<<"--id">>),
                   package.winget_id, Str(<<"--version">>), latest_version>>
           /\ \A k \in 1..n :
                 /\ komac_cmd[5 + 2 * k] = Str(<<"--urls">>)
                 /\ komac_cmd[6 + 2 * k].t = "str"
                 /\ "{version}" \notin Range(komac_cmd[6 + 2 * k].v)
           /\ komac_cmd[2 * n + 7] = Str(<<"--submit">>)

\* C7: without url-check in skip-checks, an invocation happens only after a
\* HEAD request to every installer URL answered below 400, the URLs after
\* --urls are the URLs requested, with {version} filled in; a bad status, a
\* transport error or an installer without any URL leaves the package
\* without invocation.
C7_UrlsCheckedBeforeInvocation ==
    (idx >= 1 /\ "url-check" \notin package.skip_checks) =>
        /\ invoked[idx] # <<>> =>
              LET cmd == invoked[idx][1].cmd
                  n == Len(package.installers)
              IN /\ Len(heads) = n
                 /\ \A k \in 1..n :
                       /\ ~heads[k].raised /\ heads[k].status < BadStatus
                       /\ cmd[6 + 2 * k] = heads[k].url
                       /\ "{version}" \notin Range(heads[k].url.v)
        /\ (\E k \in 1..Len(heads) : heads[k].raised \/ heads[k].status >= BadStatus)
              => /\ invoked[idx] = <<>>
                 /\ pc \in {"loop", "exited"}
                 /\ "skipping_update" \in Range(printed)
        /\ (\E k \in 1..Len(package.installers) :
               package.installers[k].url = NoneV /\ package.installers[k].template = NoneV)
              => invoked[idx] = <<>>

\* two installers, one of them a template, checked and then handed to komac
C7_Witness ==
    /\ idx >= 1 /\ "url-check" \notin package.skip_checks
    /\ invoked[idx] # <<>>
    /\ Len(package.installers) = 2
    /\ \E k \in 1..2 : package.installers[k] = InstTemplate

====
